---- MODULE Spec2Model ----
(***************************************************************************)
(* Model of eden/fs/cli/config.py: the on-disk client registry, the mount  *)
(* orchestration over the thrift client, and the supervision of the edenfs *)
(* daemon (health probe, sanitized environment, spawn, readiness poll).    *)
(*                                                                         *)
(* A path is a sequence of components; the file system is a function from  *)
(* the paths that exist to nodes.  Text is a sequence of one-character     *)
(* strings.  An error is a record [kind, msg]; kind "ok" means no error.   *)
(***************************************************************************)
EXTENDS Integers, Sequences, FiniteSets, TLC

VARIABLES
    fs,        \* the file system: path -> [kind, data]
    res,       \* the outcome of the last registry / orchestrator call
    inv,       \* the concurrent create_client invocations: id -> frame
    sp,        \* the spawn() invocation in progress
    hs,        \* the last check_health() call made by a caller or at the head of spawn
    environ,   \* os.environ of the calling process
    eden_env   \* the environment last built for the daemon

vars == <<fs, res, inv, sp, hs, environ, eden_env>>

----------------------------------------------------------------------------
(* Program constants: path names                                           *)

CLIENTS_DIR == "clients"
STORAGE_DIR == "storage"
CONFIG_JSON == "config.json"
SNAPSHOT == "SNAPSHOT"

\* Config._config_dir
config_dir == <<"eden">>

----------------------------------------------------------------------------
(* Errors                                                                  *)

Err(kind, msg) == [kind |-> kind, msg |-> msg]
NoError == Err("ok", "")
ClientNotFound == Err("Exception", "no such client")
ClientAlreadyExists == Err("Exception", "client already exists")
InvalidMountPoint == Err("Exception", "parent must be a directory")
OSError(errno) == Err("OSError", errno)
ValueError == Err("ValueError", "no JSON object could be decoded")

----------------------------------------------------------------------------
(* os.path and os                                                          *)

join(path, component) == Append(path, component)
dirname(path) == IF Len(path) = 0 THEN path ELSE SubSeq(path, 1, Len(path) - 1)

DirNode == [kind |-> "dir", data |-> <<>>]
FileNode(data) == [kind |-> "file", data |-> data]

exists(f, path) == path \in DOMAIN f
isdir(f, path) == path \in DOMAIN f /\ f[path].kind = "dir"
isfile(f, path) == path \in DOMAIN f /\ f[path].kind = "file"

Put(f, path, node) == [p \in DOMAIN f \cup {path} |-> IF p = path THEN node ELSE f[p]]

\* os.mkdir: [fs, err]
mkdir(f, path) ==
    IF exists(f, path) THEN [fs |-> f, err |-> OSError("EEXIST")]
    ELSE IF ~exists(f, dirname(path)) THEN [fs |-> f, err |-> OSError("ENOENT")]
    ELSE IF ~isdir(f, dirname(path)) THEN [fs |-> f, err |-> OSError("ENOTDIR")]
    ELSE [fs |-> Put(f, path, DirNode), err |-> NoError]

\* makedirs that accepts a leaf that is already a directory.
RECURSIVE makedirs_exist_ok(_, _)
makedirs_exist_ok(f, path) ==
    IF isdir(f, path) THEN [fs |-> f, err |-> NoError]
    ELSE LET head == dirname(path)
             up == IF Len(path) > 1 /\ ~exists(f, head)
                     THEN makedirs_exist_ok(f, head)
                     ELSE [fs |-> f, err |-> NoError]
         IN  IF up.err.kind = "ok" THEN mkdir(up.fs, path) ELSE up

\* os.makedirs: creates the missing ancestors, then mkdir of the leaf, which
\* fails with EEXIST when the leaf exists.
RECURSIVE makedirs(_, _)
makedirs(f, path) ==
    LET head == dirname(path)
        up == IF Len(path) > 1 /\ ~exists(f, head)
                THEN makedirs(f, head)
                ELSE [fs |-> f, err |-> NoError]
    IN  IF up.err.kind = "ok" \/ up.err.msg = "EEXIST"
          THEN mkdir(up.fs, path)
          ELSE up

\* open(path, 'w') followed by the writes and the close: [fs, err]
write_file(f, path, data) ==
    IF isdir(f, path) THEN [fs |-> f, err |-> OSError("EISDIR")]
    ELSE IF ~exists(f, dirname(path)) THEN [fs |-> f, err |-> OSError("ENOENT")]
    ELSE IF ~isdir(f, dirname(path)) THEN [fs |-> f, err |-> OSError("ENOTDIR")]
    ELSE [fs |-> Put(f, path, FileNode(data)), err |-> NoError]

\* open(path).read(): [data, err]
read_file(f, path) ==
    IF ~exists(f, path) THEN [data |-> <<>>, err |-> OSError("ENOENT")]
    ELSE IF isdir(f, path) THEN [data |-> <<>>, err |-> OSError("EISDIR")]
    ELSE [data |-> f[path].data, err |-> NoError]

\* The names of the entries of a directory.
entries(f, path) == {q[Len(q)] : q \in {p \in DOMAIN f : Len(p) > 0 /\ p # path /\ dirname(p) = path}}

\* os.listdir: the entries as a list, in the order the file system yields them.
RECURSIVE as_list(_)
as_list(names) ==
    IF names = {} THEN <<>>
    ELSE LET n == CHOOSE x \in names : TRUE IN <<n>> \o as_list(names \ {n})

listdir(f, path) == as_list(entries(f, path))

----------------------------------------------------------------------------
(* str.strip and json                                                      *)

Whitespace == {" ", "\n"}

RECURSIVE lstrip(_)
lstrip(s) ==
    IF Len(s) > 0 /\ s[1] \in Whitespace THEN lstrip(Tail(s)) ELSE s

RECURSIVE rstrip(_)
rstrip(s) ==
    IF Len(s) > 0 /\ s[Len(s)] \in Whitespace
      THEN rstrip(SubSeq(s, 1, Len(s) - 1))
      ELSE s

strip(s) == rstrip(lstrip(s))

\* The keys of the config document in the order sort_keys=True writes them.
SortedKeys == <<"bind-mounts", "mount", "repo_source", "repo_type">>

\* json.dump(config_data, f, sort_keys=True): the document is the sequence of
\* its <<key, value>> members in key order.
json_dump(config_data) ==
    [i \in 1..Len(SortedKeys) |-> <<SortedKeys[i], config_data[SortedKeys[i]]>>]

\* json.load: the mapping from each key of the document to its value.
json_load(doc) ==
    [k \in {doc[i][1] : i \in DOMAIN doc} |->
        doc[CHOOSE i \in DOMAIN doc : doc[i][1] = k][2]]

----------------------------------------------------------------------------
(* Module-level helpers of config.py                                       *)

\* A validation that creates the missing parents of the mount point as well.
_verify_mount_point_makedirs(f, mount_point) ==
    IF isdir(f, mount_point) THEN [fs |-> f, err |-> NoError]
    ELSE makedirs(f, mount_point)

\* _verify_mount_point: [fs, err]
_verify_mount_point(f, mount_point) ==
    IF isdir(f, mount_point) THEN [fs |-> f, err |-> NoError]
    ELSE IF isdir(f, dirname(mount_point)) THEN mkdir(f, mount_point)
    ELSE [fs |-> f, err |-> InvalidMountPoint]

\* _get_or_create_dir: makedirs, with EEXIST swallowed: [fs, err]
_get_or_create_dir(f, path) ==
    LET r == makedirs(f, path)
    IN  IF r.err.kind = "OSError" /\ r.err.msg = "EEXIST"
          THEN [fs |-> r.fs, err |-> NoError]
          ELSE r

----------------------------------------------------------------------------
(* The client registry                                                     *)

_get_clients_dir == join(config_dir, CLIENTS_DIR)
client_dir_of(name) == join(_get_clients_dir, name)
client_config_of(name) == join(client_dir_of(name), CONFIG_JSON)
client_snapshot_of(name) == join(client_dir_of(name), SNAPSHOT)
bind_mounts_dir_of(name) == join(client_dir_of(name), "bind-mounts")
local_dir_of(name) == join(client_dir_of(name), "local")

\* os.path.join(self._config_dir, ROCKS_DB_DIR)
rocks_db_dir == join(join(config_dir, STORAGE_DIR), "rocks-db")

\* Config.get_or_create_path_to_rocks_db: [fs, err]
get_or_create_path_to_rocks_db(f) == _get_or_create_dir(f, rocks_db_dir)

\* Config._get_or_create_write_dir: [fs, err]
_get_or_create_write_dir(f, client_name) == _get_or_create_dir(f, local_dir_of(client_name))

\* The clients listed by the presence of their config document.
get_client_names_by_config(f) ==
    IF ~isdir(f, _get_clients_dir) THEN <<>>
    ELSE SelectSeq(listdir(f, _get_clients_dir),
                   LAMBDA entry : isfile(f, join(join(_get_clients_dir, entry), CONFIG_JSON)))

\* Config.get_client_names
get_client_names(f) ==
    IF ~isdir(f, _get_clients_dir) THEN <<>>
    ELSE SelectSeq(listdir(f, _get_clients_dir),
                   LAMBDA entry : isdir(f, join(_get_clients_dir, entry)))

\* A dict is the set of its <<key, value>> items.
NoInfo == [bind_mounts |-> {}, mount |-> <<>>, snapshot |-> <<>>, client_dir |-> <<>>]

\* Config.get_client_info: [err, info]
get_client_info(f, name) ==
    LET client_dir == client_dir_of(name)
        conf == read_file(f, client_config_of(name))
        snap == read_file(f, client_snapshot_of(name))
    IN  IF ~isdir(f, client_dir) THEN [err |-> ClientNotFound, info |-> NoInfo]
        ELSE IF conf.err.kind # "ok" THEN [err |-> conf.err, info |-> NoInfo]
        ELSE IF conf.data = <<>> THEN [err |-> ValueError, info |-> NoInfo]
        ELSE IF snap.err.kind # "ok" THEN [err |-> snap.err, info |-> NoInfo]
        ELSE LET config_data == json_load(conf.data)
             IN  [err |-> NoError,
                  info |-> [bind_mounts |-> config_data["bind-mounts"],
                            mount |-> config_data["mount"],
                            snapshot |-> strip(snap.data),
                            client_dir |-> client_dir]]

\* Config.get_all_client_config_info: [err, info], info the dict from each
\* client name to its record; the first failing get_client_info ends the loop.
RECURSIVE all_client_config_info(_, _, _)
all_client_config_info(f, clients, info) ==
    IF clients = <<>> THEN [err |-> NoError, info |-> info]
    ELSE LET got == get_client_info(f, Head(clients))
         IN  IF got.err.kind # "ok" THEN [err |-> got.err, info |-> {}]
             ELSE all_client_config_info(f, Tail(clients),
                                         info \cup {<<Head(clients), got.info>>})

get_all_client_config_info(f) == all_client_config_info(f, get_client_names(f), {})

\* A bind_mounts dict that registers the build output directory always.
bind_mounts_always(with_buck) == {<<"buck-out", "buck-out">>}

\* The bind_mounts dict create_client builds.
bind_mounts_of(with_buck) == IF with_buck THEN {<<"buck-out", "buck-out">>} ELSE {}

\* The config_data dict create_client builds.
config_data_of(fr) ==
    [k \in {"bind-mounts", "mount", "repo_type", "repo_source"} |->
        CASE k = "bind-mounts" -> bind_mounts_of(fr.with_buck)
          [] k = "mount" -> fr.mount_point
          [] k = "repo_type" -> fr.repo_type
          [] k = "repo_source" -> fr.repo_source]

\* A wrong existence test: it looks for the config document of the client.
client_exists_by_config(f, name) == isfile(f, client_config_of(name))

\* os.path.isdir(client_dir) in create_client
client_exists(f, name) == isdir(f, client_dir_of(name))

\* One invocation of create_client: its arguments, its position, the file
\* system call at which the operating system reports an I/O error (if any),
\* and the exception it ended with.
Frame(name, mount_point, snapshot_id, repo_type, repo_source, with_buck, fault) ==
    [pc |-> "verify", name |-> name, mount_point |-> mount_point,
     snapshot_id |-> snapshot_id, repo_type |-> repo_type,
     repo_source |-> repo_source, with_buck |-> with_buck,
     fault |-> fault, err |-> NoError]

\* A failing call that is followed by the removal of the client directory
\* and all it holds.
Sys_rollback(fr, f, r) ==
    LET client_dir == client_dir_of(fr.name)
        inside(q) == Len(q) >= Len(client_dir) /\ SubSeq(q, 1, Len(client_dir)) = client_dir
    IN  IF fr.fault = fr.pc
          THEN [fs |-> [q \in {x \in DOMAIN f : ~inside(x)} |-> f[q]],
                err |-> OSError("EIO")]
          ELSE r

\* The call of the step at fr.pc, or the injected I/O error.
Sys(fr, f, r) == IF fr.fault = fr.pc THEN [fs |-> f, err |-> OSError("EIO")] ELSE r

\* The fault that strikes the step at pc after its file was opened.
write_fault_of(pc) ==
    CASE pc = "config" -> "config_write"
      [] pc = "snapshot" -> "snapshot_write"
      [] OTHER -> "never"

\* with open(path, 'w') as f: f.write(data): the open or the injected error
\* of the open; or, with the file created empty by the open, the injected
\* error of the write or of the close.
open_and_write(fr, f, path, data) ==
    LET opened == write_file(f, path, <<>>)
    IN  IF fr.fault = write_fault_of(fr.pc) /\ opened.err.kind = "ok"
          THEN [fs |-> opened.fs, err |-> OSError("EIO")]
          ELSE Sys(fr, f, write_file(f, path, data))

Advance(fr, r, pc) ==
    [fr |-> IF r.err.kind = "ok"
              THEN [fr EXCEPT !.pc = pc]
              ELSE [fr EXCEPT !.pc = "done", !.err = r.err],
     fs |-> r.fs]

\* Config.create_client, one statement with a file system effect at a time:
\* [fr, fs]
create_client_step(fr, f) ==
    CASE fr.pc = "verify" ->
            Advance(fr, _verify_mount_point(f, fr.mount_point), "check")
      [] fr.pc = "check" ->
            Advance(fr, [fs |-> f,
                         err |-> IF client_exists(f, fr.name)
                                   THEN ClientAlreadyExists ELSE NoError],
                    "mkclient")
      [] fr.pc = "mkclient" ->
            Advance(fr, Sys(fr, f, makedirs(f, client_dir_of(fr.name))), "mkbind")
      [] fr.pc = "mkbind" ->
            Advance(fr, Sys(fr, f, makedirs(f, bind_mounts_dir_of(fr.name))), "mkbuck")
      [] fr.pc = "mkbuck" ->
            IF fr.with_buck
              THEN Advance(fr, Sys(fr, f, makedirs(f, join(bind_mounts_dir_of(fr.name),
                                                            "buck-out"))),
                           "config")
              ELSE Advance(fr, [fs |-> f, err |-> NoError], "config")
      [] fr.pc = "config" ->
            Advance(fr, open_and_write(fr, f, client_config_of(fr.name),
                                       json_dump(config_data_of(fr))),
                    "snapshot")
      [] fr.pc = "snapshot" ->
            IF fr.snapshot_id # <<>>
              THEN Advance(fr, open_and_write(fr, f, client_snapshot_of(fr.name),
                                                 fr.snapshot_id \o <<"\n">>),
                           "done")
              ELSE Advance(fr, [fs |-> f, err |-> NoError], "done")
      [] OTHER -> [fr |-> fr, fs |-> f]

\* Config.create_client from call to return or raise: [fr, fs]
RECURSIVE create_client(_, _)
create_client(fr, f) ==
    IF fr.pc = "done" THEN [fr |-> fr, fs |-> f]
    ELSE LET s == create_client_step(fr, f) IN create_client(s.fr, s.fs)

----------------------------------------------------------------------------
(* The mount orchestration                                                 *)

\* A request sent to the daemon, with what held on disk when it was sent.
Request(f, call, mount_point, arg, name) ==
    [call |-> call, mount_point |-> mount_point, arg |-> arg,
     mount_point_isdir |-> isdir(f, mount_point),
     write_dir_isdir |-> isdir(f, local_dir_of(name))]

\* try: <call> except EdenService.EdenError as ex: raise Exception(ex.message)
reboxed(reply) ==
    CASE reply.kind = "EdenError" -> Err("Exception", reply.msg)
      [] OTHER -> reply

\* A call whose exceptions are not caught.
unboxed(reply) == reply

\* mount with the request sent before the mount point is validated.
mount_request_first(f, name, conn, reply) ==
    LET got == get_client_info(f, name)
        mount_point == got.info.mount
        v == _verify_mount_point(f, mount_point)
        w == _get_or_create_dir(v.fs, local_dir_of(name))
    IN  IF got.err.kind # "ok" THEN [fs |-> f, err |-> got.err, rpc |-> <<>>]
        ELSE IF conn.kind # "ok" THEN [fs |-> f, err |-> conn, rpc |-> <<>>]
        ELSE [fs |-> IF v.err.kind = "ok" THEN w.fs ELSE v.fs,
              err |-> IF reply.kind = "EdenError" THEN Err("Exception", reply.msg)
                      ELSE IF reply.kind # "ok" THEN reply
                      ELSE IF v.err.kind # "ok" THEN v.err ELSE w.err,
              rpc |-> <<Request(f, "mount", mount_point, got.info.client_dir, name)>>]

\* Config.mount: [fs, err, rpc]
mount(f, name, conn, reply) ==
    LET got == get_client_info(f, name)
        mount_point == got.info.mount
        v == _verify_mount_point(f, mount_point)
        w == _get_or_create_dir(v.fs, local_dir_of(name))
    IN  IF got.err.kind # "ok" THEN [fs |-> f, err |-> got.err, rpc |-> <<>>]
        ELSE IF v.err.kind # "ok" THEN [fs |-> v.fs, err |-> v.err, rpc |-> <<>>]
        ELSE IF w.err.kind # "ok" THEN [fs |-> w.fs, err |-> w.err, rpc |-> <<>>]
        ELSE IF conn.kind # "ok" THEN [fs |-> w.fs, err |-> conn, rpc |-> <<>>]
        ELSE [fs |-> w.fs, err |-> reboxed(reply),
              rpc |-> <<Request(w.fs, "mount", mount_point, got.info.client_dir, name)>>]

\* Config.unmount: [fs, err, rpc]
unmount(f, name, conn, reply) ==
    LET got == get_client_info(f, name)
    IN  IF got.err.kind # "ok" THEN [fs |-> f, err |-> got.err, rpc |-> <<>>]
        ELSE IF conn.kind # "ok" THEN [fs |-> f, err |-> conn, rpc |-> <<>>]
        ELSE [fs |-> f, err |-> unboxed(reply),
              rpc |-> <<Request(f, "unmount", got.info.mount, <<>>, name)>>]

\* A checkout that records the new snapshot id in the registry.
checkout_writes_snapshot(f, name, snapshot_id, conn, reply) ==
    LET got == get_client_info(f, name)
        w == write_file(f, client_snapshot_of(name), snapshot_id \o <<"\n">>)
    IN  IF got.err.kind # "ok" THEN [fs |-> f, err |-> got.err, rpc |-> <<>>]
        ELSE IF conn.kind # "ok" THEN [fs |-> f, err |-> conn, rpc |-> <<>>]
        ELSE [fs |-> IF reply.kind = "ok" THEN w.fs ELSE f,
              err |-> IF reply.kind = "EdenError" THEN Err("Exception", reply.msg) ELSE reply,
              rpc |-> <<[call |-> "checkOutRevision", mount_point |-> got.info.mount,
                         arg |-> snapshot_id, mount_point_isdir |-> isdir(f, got.info.mount),
                         write_dir_isdir |-> isdir(f, join(client_dir_of(name), "local"))]>>]

\* Config.checkout: [fs, err, rpc]
checkout(f, name, snapshot_id, conn, reply) ==
    LET got == get_client_info(f, name)
    IN  IF got.err.kind # "ok" THEN [fs |-> f, err |-> got.err, rpc |-> <<>>]
        ELSE IF conn.kind # "ok" THEN [fs |-> f, err |-> conn, rpc |-> <<>>]
        ELSE [fs |-> f, err |-> reboxed(reply),
              rpc |-> <<Request(f, "checkOutRevision", got.info.mount, snapshot_id, name)>>]

----------------------------------------------------------------------------
(* The health probe                                                        *)

\* HealthStatus.__init__; pid "None" is Python's None
HealthStatus(status, pid, detail) == [status |-> status, pid |-> pid, detail |-> detail]

\* HealthStatus.is_healthy
is_healthy(health_info) == health_info.status = "ALIVE"

\* What one probe meets: whether get_thrift_client() connects, and what
\* getPid() and getStatus() answer ("TException" when the call fails).
Probe(conn, getPid, getStatus) == [conn |-> conn, getPid |-> getPid, getStatus |-> getStatus]

Pids == {"4242"}
Statuses == {"DEAD", "STARTING", "ALIVE", "STOPPING"}

Probes ==
    {Probe("EdenNotRunningError", "TException", "TException")}
    \cup {Probe("ok", "TException", "TException")}
    \cup {Probe("ok", pid, st) : pid \in Pids, st \in Statuses \cup {"TException"}}

\* check_health without the except clause around the two calls.
check_health_uncaught(probe) ==
    IF probe.conn # "ok"
      THEN [raised |-> NoError,
            health |-> HealthStatus("DEAD", "None", <<"edenfs not running">>)]
    ELSE IF probe.getPid = "TException" \/ probe.getStatus = "TException"
      THEN [raised |-> Err("TException", "transport"),
            health |-> HealthStatus("DEAD", "None", <<>>)]
    ELSE [raised |-> NoError,
          health |-> HealthStatus(probe.getStatus, probe.getPid,
                         <<"edenfs running (pid ", probe.getPid, "); status is ",
                           probe.getStatus>>)]

\* check_health with ALIVE as the status it starts from.
check_health_default_alive(probe) ==
    IF probe.conn # "ok"
      THEN [raised |-> NoError,
            health |-> HealthStatus("DEAD", "None", <<"edenfs not running">>)]
    ELSE IF probe.getPid = "TException"
      THEN [raised |-> NoError,
            health |-> HealthStatus("ALIVE", "None",
                           <<"error talking to edenfs: ", "transport">>)]
    ELSE IF probe.getStatus = "TException"
      THEN [raised |-> NoError,
            health |-> HealthStatus("ALIVE", probe.getPid,
                           <<"error talking to edenfs: ", "transport">>)]
    ELSE [raised |-> NoError,
          health |-> HealthStatus(probe.getStatus, probe.getPid,
                         <<"edenfs running (pid ", probe.getPid, "); status is ",
                           probe.getStatus>>)]

\* Config.check_health: [raised, health]
check_health(probe) ==
    IF probe.conn # "ok"
      THEN [raised |-> NoError,
            health |-> HealthStatus("DEAD", "None", <<"edenfs not running">>)]
    ELSE IF probe.getPid = "TException"
      THEN [raised |-> NoError,
            health |-> HealthStatus("DEAD", "None",
                           <<"error talking to edenfs: ", "transport">>)]
    ELSE IF probe.getStatus = "TException"
      THEN [raised |-> NoError,
            health |-> HealthStatus("DEAD", probe.getPid,
                           <<"error talking to edenfs: ", "transport">>)]
    ELSE [raised |-> NoError,
          health |-> HealthStatus(probe.getStatus, probe.getPid,
                         <<"edenfs running (pid ", probe.getPid, "); status is ",
                           probe.getStatus>>)]

----------------------------------------------------------------------------
(* The environment built for the daemon                                    *)
(* A variable name is a sequence of characters, a value a sequence of      *)
(* tokens, a dict the set of its <<name, value>> items.                    *)

PATH == <<"P", "A", "T", "H">>
USER == <<"U", "S", "E", "R">>
LOGNAME == <<"L", "O", "G", "N", "A", "M", "E">>
HOME == <<"H", "O", "M", "E">>
EMAIL == <<"E", "M", "A", "I", "L">>
NAME == <<"N", "A", "M", "E">>
SSH_AUTH_SOCK == <<"S", "S", "H", "_", "A", "U", "T", "H", "_", "S", "O", "C", "K">>
SSH_AGENT_PID == <<"S", "S", "H", "_", "A", "G", "E", "N", "T", "_", "P", "I", "D">>
TESTPILOT_ == <<"T", "E", "S", "T", "P", "I", "L", "O", "T", "_">>

path_dirs == <<"/usr/local/bin", "/bin", "/usr/bin">>
preserve == {USER, LOGNAME, HOME, EMAIL, NAME, SSH_AUTH_SOCK, SSH_AGENT_PID}

\* ':'.join(dirs)
RECURSIVE colon_join(_)
colon_join(dirs) ==
    IF Len(dirs) = 0 THEN <<>>
    ELSE IF Len(dirs) = 1 THEN <<dirs[1]>>
    ELSE <<dirs[1], ":">> \o colon_join(Tail(dirs))

\* name.startswith(prefix)
startswith(name, prefix) ==
    Len(name) >= Len(prefix) /\ SubSeq(name, 1, Len(prefix)) = prefix

\* d[name] = value
set_item(d, name, value) == {kv \in d : kv[1] # name} \cup {<<name, value>>}

\* The loop body of _build_eden_environment for one item of os.environ.
keep_item(eden, name, value) ==
    IF startswith(name, TESTPILOT_) THEN set_item(eden, name, value)
    ELSE IF name \in preserve THEN set_item(eden, name, value)
    ELSE eden

\* The loop of _build_eden_environment over the items not yet visited.
RECURSIVE copy_items(_, _)
copy_items(eden, items) ==
    IF items = {} THEN eden
    ELSE LET kv == CHOOSE x \in items : TRUE
         IN  copy_items(keep_item(eden, kv[1], kv[2]), items \ {kv})

\* _build_eden_environment that lets an ambient PATH replace its own.
_build_eden_environment_inherit(ambient) ==
    LET eden == copy_items({<<PATH, colon_join(path_dirs)>>}, ambient)
    IN  IF \E kv \in ambient : kv[1] = PATH
          THEN set_item(eden, PATH, (CHOOSE kv \in ambient : kv[1] = PATH)[2])
          ELSE eden

\* Config._build_eden_environment
_build_eden_environment(ambient) ==
    copy_items({<<PATH, colon_join(path_dirs)>>}, ambient)

----------------------------------------------------------------------------
(* spawn and the readiness poll                                            *)
(* Time is counted in ticks; proc.poll() is <<>> while the process runs    *)
(* and <<status>> once it has exited.                                      *)

\* util.poll_until(check_health, timeout=5, ...)
timeout == 5

\* The pause of poll_until between two calls of its function.
interval == 1

\* The longest a health probe blocks on the daemon's socket, in ticks.
MaxProbeTime == 2

StartError(kind, msg, pid, code) == [kind |-> kind, msg |-> msg, pid |-> pid, code |-> code]
NoStartError == StartError("ok", "", "None", <<>>)
AlreadyRunning(pid) == StartError("EdenStartError", "edenfs is already running (pid)", pid, <<>>)
DaemonStartTimeout ==
    StartError("EdenStartError", "timed out waiting for edenfs to become healthy", "None", <<>>)
StartOSError(errno) == StartError("OSError", errno, "None", <<>>)

\* The exception of the poll for an exited process that reports a signal as
\* an exit status.
DaemonExitedUnsigned(status) ==
    StartError("EdenStartError", "edenfs exited before becoming healthy: exit status",
               "None", <<status>>)

\* The exception _wait_for_daemon_healthy raises for an exited process.
DaemonExitedPrematurely(status) ==
    IF status < 0
      THEN StartError("EdenStartError",
                      "edenfs exited before becoming healthy: terminated with signal",
                      "None", <<-status>>)
      ELSE StartError("EdenStartError",
                      "edenfs exited before becoming healthy: exit status",
                      "None", <<status>>)

NoHealth == HealthStatus("", "None", <<>>)

\* get_log_path
get_log_path == join(join(config_dir, "logs"), "edenfs.log")

\* open(path, 'a'), one write and the close: [fs, err]
append_file(f, path, line) ==
    IF isdir(f, path) THEN [fs |-> f, err |-> OSError("EISDIR")]
    ELSE IF ~exists(f, dirname(path)) THEN [fs |-> f, err |-> OSError("ENOENT")]
    ELSE IF ~isdir(f, dirname(path)) THEN [fs |-> f, err |-> OSError("ENOTDIR")]
    ELSE [fs |-> Put(f, path, FileNode((IF exists(f, path) THEN f[path].data ELSE <<>>)
                                         \o <<line>>)),
          err |-> NoError]

\* os.stat(daemon_binary): whether the file exists, its owner, its setuid bit.
Stat(present, st_uid, setuid) == [present |-> present, st_uid |-> st_uid, setuid |-> setuid]

\* The command before the privilege decision.
base_cmd(daemon_binary, extra_args, gdb) ==
    (IF gdb THEN <<"gdb", "--args">> ELSE <<>>)
        \o <<daemon_binary, "--edenDir", config_dir[1]>> \o extra_args

\* A privilege decision that looks at the setuid bit only.
needs_sudo_setuid_only(euid, st) == euid # 0 /\ ~st.setuid

\* Whether spawn runs edenfs under sudo.
needs_sudo(euid, st) == euid # 0 /\ ~(st.st_uid = 0 /\ st.setuid)

\* The command spawn launches.
build_cmd(daemon_binary, extra_args, gdb, euid, st) ==
    (IF needs_sudo(euid, st) THEN <<"/usr/bin/sudo", "-E">> ELSE <<>>)
        \o base_cmd(daemon_binary, extra_args, gdb)

\* Whether execve / Popen finds the file named by the first word of the
\* command: sudo is installed, a bare "gdb" is looked up in the current
\* directory, the daemon binary is where stat saw it.
executable_present(arg0, st, gdb_in_cwd) ==
    CASE arg0 = "/usr/bin/sudo" -> TRUE
      [] arg0 = "gdb" -> gdb_in_cwd
      [] OTHER -> st.present

\* One spawn() call: where it stands, how it ended, and what it did.
SpawnState(pc, err, health, entry, cmd, foreground, euid, st, now, polls, returncode, observed, launched, log_writes, execs) ==
    [pc |-> pc, err |-> err, health |-> health, entry |-> entry, cmd |-> cmd,
     foreground |-> foreground, euid |-> euid, st |-> st, now |-> now,
     end_time |-> timeout, polls |-> polls, returncode |-> returncode,
     observed |-> observed, launched |-> launched, log_writes |-> log_writes,
     execs |-> execs]

NoSpawn ==
    SpawnState("idle", NoStartError, NoHealth, NoHealth, <<>>, FALSE, 0, Stat(FALSE, 0, FALSE),
               0, 0, <<>>, <<>>, 0, 0, 0)

\* is_healthy that compares with the wrong status.
is_healthy_dead(health_info) == health_info.status = "DEAD"

\* The test at the head of spawn.
already_running(health_info) == is_healthy(health_info)

\* Config.spawn up to the exec, or up to the start of the readiness poll:
\* [sp, fs, env]
spawn(f, ambient, probe, daemon_binary, extra_args, gdb, foreground, euid, st, gdb_in_cwd) ==
    LET health_info == check_health(probe).health
        fg == foreground \/ gdb
        cmd == build_cmd(daemon_binary, extra_args, gdb, euid, st)
        eden == _build_eden_environment(ambient)
        End(pc, err, ff, env, launched, log_writes, execs) ==
            [sp |-> SpawnState(pc, err, NoHealth, health_info, cmd, fg, euid, st, 0, 0,
                               <<>>, <<>>, launched, log_writes, execs),
             fs |-> ff, env |-> env]
        logdir == _get_or_create_dir(f, dirname(get_log_path))
        logged == append_file(logdir.fs, get_log_path, "starting edenfs")
    IN  IF already_running(health_info)
          THEN [sp |-> SpawnState("raised", AlreadyRunning(health_info.pid), NoHealth,
                                  health_info, <<>>, FALSE, euid, st, 0, 0, <<>>, <<>>,
                                  0, 0, 0),
                fs |-> f, env |-> {}]
        ELSE IF euid # 0 /\ ~st.present
          THEN [sp |-> SpawnState("raised", StartOSError("ENOENT"), NoHealth, health_info,
                                  <<>>, fg, euid, st, 0, 0, <<>>, <<>>, 0, 0, 0),
                fs |-> f, env |-> {}]
        ELSE IF fg
          THEN IF executable_present(cmd[1], st, gdb_in_cwd)
                 THEN End("exec", NoStartError, f, eden, 0, 0, 1)
                 ELSE End("raised", StartOSError("ENOENT"), f, eden, 0, 0, 0)
        ELSE IF logdir.err.kind # "ok"
          THEN End("raised", StartOSError(logdir.err.msg), logdir.fs, eden, 0, 0, 0)
        ELSE IF logged.err.kind # "ok"
          THEN End("raised", StartOSError(logged.err.msg), logged.fs, eden, 0, 0, 0)
        ELSE IF ~executable_present(cmd[1], st, gdb_in_cwd)
          THEN End("raised", StartOSError("ENOENT"), logged.fs, eden, 0, 1, 0)
        ELSE End("polling", NoStartError, logged.fs, eden, 1, 1, 0)

\* The function _wait_for_daemon_healthy polls with, when it forgets the
\* process: [ret, err]
wait_check_health_only(probe, returncode) ==
    LET health_info == check_health(probe).health
    IN  IF is_healthy(health_info)
          THEN [ret |-> <<health_info>>, err |-> NoStartError]
          ELSE [ret |-> <<>>, err |-> NoStartError]

\* The same function with the signal reported as an exit status.
wait_check_unsigned(probe, returncode) ==
    LET health_info == check_health(probe).health
    IN  IF is_healthy(health_info)
          THEN [ret |-> <<health_info>>, err |-> NoStartError]
        ELSE IF returncode # <<>>
          THEN [ret |-> <<>>, err |-> DaemonExitedUnsigned(returncode[1])]
        ELSE [ret |-> <<>>, err |-> NoStartError]

\* The function _wait_for_daemon_healthy polls with (its local check_health):
\* [ret, err], ret <<>> for None
wait_check(probe, returncode) ==
    LET health_info == check_health(probe).health
    IN  IF is_healthy(health_info)
          THEN [ret |-> <<health_info>>, err |-> NoStartError]
        ELSE IF returncode # <<>>
          THEN [ret |-> <<>>, err |-> DaemonExitedPrematurely(returncode[1])]
        ELSE [ret |-> <<>>, err |-> NoStartError]

\* util.poll_until after one call of its function, which ended at time now:
\* return its result, let its exception pass, raise timeout_ex at the
\* deadline, or sleep for the interval: [pc, err, ret, now]
poll_until(r, now, end_time) ==
    IF r.err.kind # "ok" THEN [pc |-> "raised", err |-> r.err, ret |-> <<>>, now |-> now]
    ELSE IF r.ret # <<>> THEN [pc |-> "returned", err |-> NoStartError, ret |-> r.ret, now |-> now]
    ELSE IF now >= end_time
      THEN [pc |-> "raised", err |-> DaemonStartTimeout, ret |-> <<>>, now |-> now]
    ELSE [pc |-> "polling", err |-> NoStartError, ret |-> <<>>, now |-> now + interval]

\* One round of _wait_for_daemon_healthy: the probe blocks for d ticks, then
\* the process is looked at, then poll_until decides.
_wait_for_daemon_healthy(s, probe, d) ==
    LET r == wait_check(probe, s.returncode)
        u == poll_until(r, s.now + d, s.end_time)
    IN  [s EXCEPT !.pc = u.pc, !.err = u.err,
                  !.health = IF u.ret # <<>> THEN u.ret[1] ELSE NoHealth,
                  !.now = u.now, !.polls = s.polls + 1,
                  !.observed = IF r.ret = <<>> THEN s.returncode ELSE <<>>]

----------------------------------------------------------------------------
(* Inputs                                                                  *)

Names == {"a", "b"}

\* A mount point whose parent is a directory and one whose parent does not
\* exist.
MountPoints == {<<"mnt", "a">>, <<"gone", "b">>}

\* No snapshot, a plain id, and an id with leading and trailing blanks.
SnapshotIds == {<<>>, <<"x">>, <<" ", "x", " ">>}

\* The snapshot ids checkout is asked for.
Revisions == {<<"x">>, <<"y">>}

RepoTypes == {"git"}
RepoSources == {"/repo"}

\* The file system call of create_client at which an I/O error is injected:
\* a makedirs, the open of a document, or the write that follows the open.
Faults ==
    {"none", "mkclient", "mkbind", "mkbuck", "config", "config_write", "snapshot",
     "snapshot_write"}

\* get_thrift_client() either connects or raises EdenNotRunningError.
Conns == {NoError, Err("EdenNotRunningError", "")}

\* The daemon's answer to a request: success, an application error carrying
\* a message, or a transport failure.
Replies == {NoError, Err("EdenError", "boom"), Err("TException", "transport")}

NoReply == Err("none", "")

DaemonBinaries == {"/usr/bin/edenfs"}
ExtraArgs == {<<>>, <<"--v">>}
Euids == {0, 1000}

\* A missing binary, a setuid root binary, a plain root binary, and a setuid
\* binary of another user.
Stats == {Stat(FALSE, 0, FALSE), Stat(TRUE, 0, TRUE), Stat(TRUE, 0, FALSE),
          Stat(TRUE, 1000, TRUE)}

\* Popen.returncode of an exited process: exit codes, and a signal.
ExitStatuses == {0, 1, -9}

RANDOM_VAR == <<"R", "A", "N", "D", "O", "M", "_", "V", "A", "R">>
TESTPILOT_FOO == TESTPILOT_ \o <<"F", "O", "O">>
TESTPILOT == <<"T", "E", "S", "T", "P", "I", "L", "O", "T">>
XTESTPILOT_ == <<"X">> \o TESTPILOT_

EnvNames == {PATH, HOME, RANDOM_VAR, TESTPILOT_FOO, TESTPILOT, XTESTPILOT_}
EnvValues == {<<"/h">>, <<"x">>}

\* Every os.environ over EnvNames and EnvValues.
Environments ==
    UNION {{{<<n, g[n]>> : n \in D} : g \in [D -> EnvValues]} : D \in SUBSET EnvNames}

\* The os.environ of the process that calls spawn.
SpawnEnviron ==
    {<<PATH, <<"x">>>>, <<HOME, <<"/h">>>>, <<RANDOM_VAR, <<"x">>>>, <<TESTPILOT_FOO, <<"x">>>>}

\* The client whose local write directory is asked for.
WriteDirNames == {"a", "b"}

\* The paths another actor creates files at and removes: the directories
\* the helpers make, and their parents below the registry root.
EnvPaths ==
    {rocks_db_dir, dirname(rocks_db_dir)}
        \cup UNION {{local_dir_of(n), client_dir_of(n)} : n \in WriteDirNames}
        \cup {_get_clients_dir}

\* The create_client calls that run concurrently.
Invocations == {1, 2}

\* What a call through the thrift client meets: no connection, or a
\* connection and the daemon's answer.
RpcOutcomes ==
    {[conn |-> c, reply |-> r] : c \in Conns, r \in Replies} \
        {o \in [conn : Conns, reply : Replies] : o.conn # NoError /\ o.reply # NoError}

----------------------------------------------------------------------------
(* State                                                                   *)

InitFS == [p \in {<<>>, <<"mnt">>} |-> DirNode]

Result(op, name, err, info, rpc, reply, mount_point, snapshot_id, with_buck) ==
    [op |-> op, name |-> name, err |-> err, info |-> info, rpc |-> rpc,
     reply |-> reply, mount_point |-> mount_point, snapshot_id |-> snapshot_id,
     with_buck |-> with_buck, names |-> <<>>, path |-> <<>>, fault |-> "none"]

NoResult == Result("none", "", NoError, NoInfo, <<>>, NoReply, <<>>, <<>>, FALSE)

NoProbeResult ==
    [pc |-> "idle", probe |-> Probe("", "", ""), raised |-> NoError, health |-> NoHealth]

IdleFrame == [Frame("", <<>>, <<>>, "", "", FALSE, "none") EXCEPT !.pc = "idle"]

InitRegistry ==
    /\ fs = InitFS
    /\ res = NoResult

InitOther ==
    /\ inv = [i \in Invocations |-> IdleFrame]
    /\ sp = NoSpawn
    /\ hs = NoProbeResult
    /\ environ = SpawnEnviron
    /\ eden_env = {}

Init == InitRegistry /\ InitOther

----------------------------------------------------------------------------
(* Actions of the registry and the orchestrator, one call each             *)

CreateClientWith(names, faults) ==
    \E name \in names, mount_point \in MountPoints, snapshot_id \in SnapshotIds,
       repo_type \in RepoTypes, repo_source \in RepoSources,
       with_buck \in BOOLEAN, fault \in faults :
        LET r == create_client(Frame(name, mount_point, snapshot_id, repo_type,
                                     repo_source, with_buck, fault), fs)
        IN  /\ fs' = r.fs
            /\ res' = [Result("create_client", name, r.fr.err, NoInfo, <<>>, NoReply,
                              mount_point, snapshot_id, with_buck)
                          EXCEPT !.fault = IF r.fr.err = OSError("EIO") THEN fault
                                           ELSE "none"]
            /\ UNCHANGED <<inv, sp, hs, environ, eden_env>>

GetClientInfo ==
    \E name \in Names :
        LET r == get_client_info(fs, name)
        IN  /\ res' = Result("get_client_info", name, r.err, r.info, <<>>, NoReply,
                             <<>>, <<>>, FALSE)
            /\ UNCHANGED <<fs, inv, sp, hs, environ, eden_env>>

Mount ==
    \E name \in Names, o \in RpcOutcomes :
        LET r == mount(fs, name, o.conn, o.reply)
        IN  /\ fs' = r.fs
            /\ res' = Result("mount", name, r.err, NoInfo, r.rpc,
                             IF r.rpc = <<>> THEN NoReply ELSE o.reply, <<>>, <<>>, FALSE)
            /\ UNCHANGED <<inv, sp, hs, environ, eden_env>>

Unmount ==
    \E name \in Names, o \in RpcOutcomes :
        LET r == unmount(fs, name, o.conn, o.reply)
        IN  /\ fs' = r.fs
            /\ res' = Result("unmount", name, r.err, NoInfo, r.rpc,
                             IF r.rpc = <<>> THEN NoReply ELSE o.reply, <<>>, <<>>, FALSE)
            /\ UNCHANGED <<inv, sp, hs, environ, eden_env>>

Checkout ==
    \E name \in Names, snapshot_id \in Revisions, o \in RpcOutcomes :
        LET r == checkout(fs, name, snapshot_id, o.conn, o.reply)
        IN  /\ fs' = r.fs
            /\ res' = Result("checkout", name, r.err, NoInfo, r.rpc,
                             IF r.rpc = <<>> THEN NoReply ELSE o.reply, <<>>, <<>>, FALSE)
            /\ UNCHANGED <<inv, sp, hs, environ, eden_env>>

\* Another actor removes an empty directory outside the registry (a mount
\* point or its parent).
EnvRmdir ==
    \E path \in {mp : mp \in MountPoints} \cup {dirname(mp) : mp \in MountPoints} :
        /\ isdir(fs, path)
        /\ \A q \in DOMAIN fs : dirname(q) # path \/ q = path
        /\ fs' = [q \in DOMAIN fs \ {path} |-> fs[q]]
        /\ res' = Result("rmdir", "", NoError, NoInfo, <<>>, NoReply, <<>>, <<>>, FALSE)
        /\ UNCHANGED <<inv, sp, hs, environ, eden_env>>

ListClientNames ==
    /\ res' = [Result("get_client_names", "", NoError, NoInfo, <<>>, NoReply, <<>>, <<>>,
                      FALSE) EXCEPT !.names = get_client_names(fs)]
    /\ UNCHANGED <<fs, inv, sp, hs, environ, eden_env>>

\* The registry on its own: creation with I/O errors, and reads.
CreateClient == CreateClientWith(Names, Faults)

Next ==
    \/ CreateClient
    \/ GetClientInfo
    \/ ListClientNames

Spec == Init /\ [][Next]_vars

\* The orchestrator over one client created without I/O errors; the calls
\* for the other name meet a client that does not exist.
CreateClientNoFault == CreateClientWith({"a"}, {"none"})

NextMount ==
    \/ CreateClientNoFault
    \/ GetClientInfo
    \/ EnvRmdir
    \/ Mount
    \/ Unmount
    \/ Checkout

SpecMount == Init /\ [][NextMount]_vars

----------------------------------------------------------------------------
(* The get-or-create directory helpers, with another actor that creates    *)
(* and removes files and empty directories under the registry root         *)

GetOrCreatePathToRocksDb ==
    LET r == get_or_create_path_to_rocks_db(fs)
    IN  /\ fs' = r.fs
        /\ res' = [Result("get_or_create_path_to_rocks_db", "", r.err, NoInfo, <<>>, NoReply,
                          <<>>, <<>>, FALSE) EXCEPT !.path = rocks_db_dir]
        /\ UNCHANGED <<inv, sp, hs, environ, eden_env>>

GetOrCreateWriteDir ==
    \E name \in WriteDirNames :
        LET r == _get_or_create_write_dir(fs, name)
        IN  /\ fs' = r.fs
            /\ res' = [Result("_get_or_create_write_dir", name, r.err, NoInfo, <<>>, NoReply,
                              <<>>, <<>>, FALSE) EXCEPT !.path = local_dir_of(name)]
            /\ UNCHANGED <<inv, sp, hs, environ, eden_env>>

\* Another actor creates an empty regular file where nothing exists.
EnvTouch ==
    \E path \in EnvPaths :
        /\ ~exists(fs, path)
        /\ isdir(fs, dirname(path))
        /\ fs' = Put(fs, path, FileNode(<<>>))
        /\ res' = [Result("touch", "", NoError, NoInfo, <<>>, NoReply, <<>>, <<>>, FALSE)
                     EXCEPT !.path = path]
        /\ UNCHANGED <<inv, sp, hs, environ, eden_env>>

\* Another actor removes a file or an empty directory.
EnvRemove ==
    \E path \in EnvPaths :
        /\ exists(fs, path)
        /\ entries(fs, path) = {}
        /\ fs' = [q \in DOMAIN fs \ {path} |-> fs[q]]
        /\ res' = [Result("remove", "", NoError, NoInfo, <<>>, NoReply, <<>>, <<>>, FALSE)
                     EXCEPT !.path = path]
        /\ UNCHANGED <<inv, sp, hs, environ, eden_env>>

NextDirs ==
    \/ GetOrCreatePathToRocksDb
    \/ GetOrCreateWriteDir
    \/ EnvTouch
    \/ EnvRemove

SpecDirs == Init /\ [][NextDirs]_vars

----------------------------------------------------------------------------
(* The daemon supervisor: probes, spawn calls, poll rounds, and the exit   *)
(* of the spawned process                                                  *)

\* What the last check_health() call met and what it did.
ProbeResult(probe) ==
    LET r == check_health(probe)
    IN  [pc |-> "done", probe |-> probe, raised |-> r.raised, health |-> r.health]

CheckHealth ==
    \E probe \in Probes :
        /\ hs' = ProbeResult(probe)
        /\ UNCHANGED <<fs, res, inv, sp, environ, eden_env>>

\* A process calls spawn once.
SpawnCall ==
    /\ sp.pc = "idle"
    /\ \E probe \in Probes, daemon_binary \in DaemonBinaries, extra_args \in ExtraArgs,
          gdb \in BOOLEAN, foreground \in BOOLEAN, euid \in Euids, st \in Stats,
          gdb_in_cwd \in BOOLEAN :
            LET r == spawn(fs, environ, probe, daemon_binary, extra_args, gdb,
                           foreground, euid, st, gdb_in_cwd)
            IN  /\ sp' = r.sp
                /\ fs' = r.fs
                /\ eden_env' = r.env
                /\ hs' = ProbeResult(probe)
                /\ UNCHANGED <<res, inv, environ>>

Poll ==
    /\ sp.pc = "polling"
    /\ \E probe \in Probes, d \in 0..MaxProbeTime :
            sp' = _wait_for_daemon_healthy(sp, probe, d)
    /\ UNCHANGED <<fs, res, inv, hs, environ, eden_env>>

ProcExit ==
    /\ sp.pc = "polling"
    /\ sp.returncode = <<>>
    /\ \E status \in ExitStatuses : sp' = [sp EXCEPT !.returncode = <<status>>]
    /\ UNCHANGED <<fs, res, inv, hs, environ, eden_env>>

\* The registry root is fresh, or holds the log of an earlier start.
InitSpawn ==
    /\ fs \in {InitFS,
               append_file(_get_or_create_dir(InitFS, dirname(get_log_path)).fs,
                           get_log_path, "starting edenfs").fs}
    /\ res = NoResult
    /\ InitOther

NextSpawn ==
    \/ SpawnCall
    \/ Poll
    \/ ProcExit

SpecSpawn == InitSpawn /\ [][NextSpawn]_vars

\* poll_until keeps calling its function until it returns or raises: a poll
\* round that can run does run.
SpecSpawnFair == SpecSpawn /\ WF_vars(Poll)

----------------------------------------------------------------------------
(* The health probe and the environment builder over all their inputs      *)

InitEnv ==
    /\ InitRegistry
    /\ inv = [i \in Invocations |-> IdleFrame]
    /\ sp = NoSpawn
    /\ hs = NoProbeResult
    /\ environ \in Environments
    /\ eden_env = {}

BuildEnv ==
    /\ eden_env' = _build_eden_environment(environ)
    /\ UNCHANGED <<fs, res, inv, sp, hs, environ>>

NextPure ==
    \/ CheckHealth
    \/ BuildEnv

SpecPure == InitEnv /\ [][NextPure]_vars

----------------------------------------------------------------------------
(* Two create_client calls, one file system call at a time                 *)

\* The concurrent calls are for the usable mount point and meet no I/O
\* error.
RaceCall ==
    \E i \in Invocations, name \in Names, snapshot_id \in SnapshotIds,
       repo_type \in RepoTypes, repo_source \in RepoSources, with_buck \in BOOLEAN :
        /\ inv[i].pc = "idle"
        /\ inv' = [inv EXCEPT ![i] = Frame(name, <<"mnt", "a">>, snapshot_id, repo_type,
                                           repo_source, with_buck, "none")]
        /\ UNCHANGED <<fs, res, sp, hs, environ, eden_env>>

RaceStep ==
    \E i \in Invocations :
        /\ inv[i].pc \notin {"idle", "done"}
        /\ LET r == create_client_step(inv[i], fs)
           IN  /\ inv' = [inv EXCEPT ![i] = r.fr]
               /\ fs' = r.fs
        /\ UNCHANGED <<res, sp, hs, environ, eden_env>>

NextRace ==
    \/ RaceCall
    \/ RaceStep

SpecRace == Init /\ [][NextRace]_vars

----------------------------------------------------------------------------
(* Claims about the registry and the orchestrator                          *)

\* The part of the file system under the registry root.
Registry(f) ==
    [p \in {q \in DOMAIN f : Len(q) >= Len(config_dir)
                              /\ SubSeq(q, 1, Len(config_dir)) = config_dir} |-> f[p]]

\* C1: after a successful create_client(name, mount_point, snapshot_id, ...,
\* with_buck), get_client_info(name) returns a record whose mount,
\* bind-mounts and snapshot are exactly the supplied ones.
C1_RoundTrip ==
    (res.op = "create_client" /\ res.err = NoError) =>
        LET got == get_client_info(fs, res.name)
        IN  /\ got.err = NoError
            /\ got.info.mount = res.mount_point
            /\ got.info.bind_mounts = bind_mounts_of(res.with_buck)
            /\ got.info.snapshot = res.snapshot_id

\* C2 as stated: create_client for a name whose client directory exists fails
\* with ClientAlreadyExists whatever the arguments, and leaves the registry
\* as it was.
C2_AlwaysAlreadyExists ==
    [][(res'.op = "create_client" /\ isdir(fs, client_dir_of(res'.name))) =>
          /\ res'.err = ClientAlreadyExists
          /\ Registry(fs') = Registry(fs)]_vars

\* C2 amended: create_client for a name whose client directory exists fails
\* and leaves the registry as it was; the error is ClientAlreadyExists when
\* the mount point is a directory or can be created under its parent, and
\* InvalidMountPoint when neither the mount point nor its parent is a
\* directory.
C2_ExistingClientUntouched ==
    [][(res'.op = "create_client" /\ isdir(fs, client_dir_of(res'.name))) =>
          /\ Registry(fs') = Registry(fs)
          /\ res'.err = IF \/ isdir(fs, res'.mount_point)
                           \/ isdir(fs, dirname(res'.mount_point))
                          THEN ClientAlreadyExists
                          ELSE InvalidMountPoint]_vars

\* C2 witness: a second create_client with other arguments than the stored
\* ones was refused and the stored client still reads back.
C2_Witness ==
    /\ res.op = "create_client"
    /\ res.err = ClientAlreadyExists
    /\ get_client_info(fs, res.name).err = NoError
    /\ get_client_info(fs, res.name).info.bind_mounts # bind_mounts_of(res.with_buck)
    /\ get_client_info(fs, res.name).info.snapshot # strip(res.snapshot_id)

\* C7: mount sends its request only after the client record was loaded, the
\* mount point is a directory and the local write directory exists; a
\* missing mount point under an existing parent is created before the
\* request; when neither the mount point nor its parent is a directory,
\* mount fails with InvalidMountPoint, sends nothing and creates nothing.
C7_MountOrder ==
    [][res'.op = "mount" =>
          LET got == get_client_info(fs, res'.name)
              mount_point == got.info.mount
          IN  /\ res'.rpc # <<>> =>
                    /\ got.err = NoError
                    /\ res'.rpc[1].call = "mount"
                    /\ res'.rpc[1].mount_point = mount_point
                    /\ res'.rpc[1].arg = client_dir_of(res'.name)
                    /\ res'.rpc[1].mount_point_isdir
                    /\ res'.rpc[1].write_dir_isdir
              /\ (got.err = NoError /\ ~isdir(fs, mount_point)
                    /\ isdir(fs, dirname(mount_point))) =>
                    /\ isdir(fs', mount_point)
                    /\ res'.rpc # <<>> => res'.rpc[1].mount_point_isdir
              /\ (got.err = NoError /\ ~isdir(fs, mount_point)
                    /\ ~isdir(fs, dirname(mount_point))) =>
                    /\ res'.err = InvalidMountPoint
                    /\ res'.rpc = <<>>
                    /\ fs' = fs]_vars

\* C7 witness: a client that was mounted once (its local write directory
\* exists) is mounted again after its mount point and the parent were
\* removed, and the call fails with InvalidMountPoint without a request.
C7_Witness ==
    /\ res.op = "mount"
    /\ res.err = InvalidMountPoint
    /\ res.rpc = <<>>
    /\ get_client_info(fs, res.name).err = NoError
    /\ isdir(fs, local_dir_of(res.name))

\* C8: an application error of the service in mount, unmount or checkout
\* reaches the caller as the core's own error carrying the service's
\* message, never as the raw service exception.
C8_ServiceErrorsWrapped ==
    (res.op \in {"mount", "unmount", "checkout"} /\ res.reply.kind = "EdenError") =>
        res.err = Err("Exception", res.reply.msg)


----------------------------------------------------------------------------
(* Claims about the daemon supervisor                                      *)

Finished == sp.pc \in {"raised", "returned"}

ExitedError ==
    sp.pc = "raised" /\ sp.err.kind = "EdenStartError" /\ sp.err.code # <<>>

\* C3: a spawn call whose entry probe reports ALIVE raises AlreadyRunning
\* with the probed pid and launches nothing: no exec, no child process, no
\* log write, no poll, and the file system is as before.
C3_AlreadyRunningNoLaunch ==
    [][(sp.pc = "idle" /\ sp'.pc # "idle" /\ sp'.entry.status = "ALIVE") =>
          /\ sp'.pc = "raised"
          /\ sp'.entry.pid \in Pids
          /\ sp'.err = AlreadyRunning(sp'.entry.pid)
          /\ sp'.launched = 0 /\ sp'.execs = 0 /\ sp'.log_writes = 0 /\ sp'.polls = 0
          /\ fs' = fs]_vars

\* C3 witness: spawn has raised AlreadyRunning in a registry that holds the
\* log of an earlier start.
C3_Witness ==
    /\ sp.pc = "raised"
    /\ sp.entry.status = "ALIVE"
    /\ sp.err = AlreadyRunning("4242")
    /\ exists(fs, get_log_path)

\* C4 as stated: an exit of the spawned process before health is reported
\* as DaemonExitedPrematurely with its code strictly before the timeout has
\* elapsed, and never as DaemonStartTimeout.
C4_ExitReportedBeforeTimeout ==
    /\ ExitedError => sp.now < sp.end_time
    /\ (sp.pc = "raised" /\ sp.err = DaemonStartTimeout) => sp.observed = <<>>

\* C4 amended: the poll round whose process check first sees the exit (its
\* probe not being healthy) raises DaemonExitedPrematurely with the exit
\* code, or the signal number of a negative status, without another sleep
\* or poll; every earlier round saw the process running; a timeout is never
\* reported by a round that saw the exit.  The round may end at or after the
\* deadline.
C4_ExitReportedAtFirstSight ==
    /\ sp.pc = "polling" => sp.observed = <<>>
    /\ ExitedError =>
          /\ sp.polls >= 1
          /\ sp.observed # <<>>
          /\ sp.observed = sp.returncode
          /\ sp.err.code = <<IF sp.observed[1] < 0 THEN -sp.observed[1] ELSE sp.observed[1]>>
          /\ sp.err.msg = IF sp.observed[1] < 0
                            THEN "edenfs exited before becoming healthy: terminated with signal"
                            ELSE "edenfs exited before becoming healthy: exit status"
          /\ sp.now < sp.end_time + interval + MaxProbeTime
    /\ (Finished /\ sp.observed # <<>>) => ExitedError
    /\ (sp.pc = "raised" /\ sp.err = DaemonStartTimeout) => sp.observed = <<>>

\* C4 witness: the process was killed by a signal and the poll round that
\* saw it ended at or after the deadline.
C4_Witness ==
    /\ ExitedError
    /\ sp.returncode = <<-9>>
    /\ sp.err.code = <<9>>
    /\ sp.now >= sp.end_time

C6_CheckHealthNeverRaises ==
    hs.pc = "done" =>
        /\ hs.raised = NoError
        /\ hs.probe.conn # "ok" =>
              hs.health.status = "DEAD" /\ hs.health.pid = "None"
        /\ (hs.probe.conn = "ok"
              /\ (hs.probe.getPid = "TException" \/ hs.probe.getStatus = "TException")) =>
              /\ Len(hs.health.detail) = 2
              /\ hs.health.detail[1] = "error talking to edenfs: "
              /\ hs.health.detail[2] = "transport"

\* C6 witness: getPid answered and getStatus failed.
C6_Witness ==
    /\ hs.pc = "done"
    /\ hs.probe.conn = "ok"
    /\ hs.probe.getPid \in Pids
    /\ hs.probe.getStatus = "TException"
    /\ hs.health.pid = hs.probe.getPid

\* C9: the environment built for the daemon has PATH set to the fixed list
\* whatever the ambient PATH, holds an ambient variable with its ambient
\* value exactly when its name is on the allow-list or starts with
\* TESTPILOT_, and holds nothing else.
C9_EnvironmentSanitized ==
    eden_env # {} =>
        /\ \A kv \in eden_env :
              kv[1] = PATH => kv[2] = <<"/usr/local/bin", ":", "/bin", ":", "/usr/bin">>
        /\ \E kv \in eden_env : kv[1] = PATH
        /\ \A kv \in environ :
              kv[1] # PATH =>
                  (kv \in eden_env <=>
                      \/ kv[1] \in {USER, LOGNAME, HOME, EMAIL, NAME, SSH_AUTH_SOCK,
                                    SSH_AGENT_PID}
                      \/ /\ Len(kv[1]) >= 10
                         /\ SubSeq(kv[1], 1, 10)
                              = <<"T", "E", "S", "T", "P", "I", "L", "O", "T", "_">>)
        /\ \A kv \in eden_env : kv[1] # PATH => kv \in environ

\* C9 witness: the ambient environment of the spec's example, with a PATH of
\* its own, has been sanitized.
C9_Witness ==
    /\ eden_env # {}
    /\ {<<PATH, <<"x">>>>, <<HOME, <<"/h">>>>, <<RANDOM_VAR, <<"x">>>>,
        <<TESTPILOT_FOO, <<"x">>>>, <<TESTPILOT, <<"x">>>>} \subseteq environ
    /\ <<HOME, <<"/h">>>> \in eden_env
    /\ <<TESTPILOT_FOO, <<"x">>>> \in eden_env

----------------------------------------------------------------------------
(* Claims about concurrent create_client calls                             *)

\* The invocation is past the existence check.
PassedCheck(fr) ==
    \/ fr.pc \in {"mkclient", "mkbind", "mkbuck", "config", "snapshot"}
    \/ fr.pc = "done" /\ fr.err \notin {ClientAlreadyExists, InvalidMountPoint}

\* The invocation has created the client directory.
PastMkdir(fr) ==
    \/ fr.pc \in {"mkbind", "mkbuck", "config", "snapshot"}
    \/ fr.pc = "done" /\ fr.err = NoError

\* C10 as stated: two concurrent calls for the same new name that both
\* passed the existence check both go on to write; neither is stopped by
\* the directory the other created.
C10_NeitherStopped ==
    \A i \in Invocations, j \in Invocations :
        (i # j /\ inv[i].name = inv[j].name /\ PassedCheck(inv[i]) /\ PassedCheck(inv[j])) =>
            inv[i].err = NoError /\ inv[j].err = NoError

\* C10 amended: two concurrent calls for the same new name can both pass the
\* existence check, but only the one whose makedirs creates the client
\* directory goes on to write; the other is stopped by that directory with
\* the operating system's EEXIST error and writes nothing, so the documents
\* of the client are the winner's alone.
C10_OneCreatorWrites ==
    \A i \in Invocations, j \in Invocations :
        (i # j /\ inv[i].name = inv[j].name /\ PassedCheck(inv[i]) /\ PassedCheck(inv[j])) =>
            /\ ~(PastMkdir(inv[i]) /\ PastMkdir(inv[j]))
            /\ (PastMkdir(inv[i]) /\ inv[j].pc = "done") =>
                  /\ inv[j].err = OSError("EEXIST")
                  /\ inv[i].pc = "done" =>
                        /\ fs[client_config_of(inv[i].name)].data
                              = json_dump(config_data_of(inv[i]))
                        /\ read_file(fs, client_snapshot_of(inv[i].name)).data
                              = IF inv[i].snapshot_id = <<>> THEN <<>>
                                ELSE inv[i].snapshot_id \o <<"\n">>
                        /\ isdir(fs, join(bind_mounts_dir_of(inv[i].name), "buck-out"))
                              = inv[i].with_buck

\* C10 witness: both calls passed the check with different arguments, one
\* finished, the other was stopped by the directory.
C10_Witness ==
    \E i \in Invocations, j \in Invocations :
        /\ i # j
        /\ inv[i].name = inv[j].name
        /\ inv[i].pc = "done" /\ inv[i].err = NoError
        /\ inv[j].pc = "done" /\ inv[j].err = OSError("EEXIST")
        /\ inv[i].with_buck # inv[j].with_buck
        /\ inv[i].snapshot_id # inv[j].snapshot_id

----------------------------------------------------------------------------
(* Claims about what the orchestrator leaves alone in the registry         *)

Range(seq) == {seq[i] : i \in DOMAIN seq}

\* The keys of the bind-mounts mapping stored in the config document.
StoredBindMountKeys(f, name) ==
    {kv[1] : kv \in json_load(f[client_config_of(name)].data)["bind-mounts"]}

\* The subdirectories under the bind-mounts directory of the client.
BindMountSubdirs(f, name) ==
    {e \in entries(f, bind_mounts_dir_of(name)) : isdir(f, join(bind_mounts_dir_of(name), e))}

\* C11: checkout changes nothing on disk, whether its request succeeds or
\* fails; mount and unmount leave the SNAPSHOT file and the config document
\* of every client as they are; so get_client_info returns after each of
\* them what it returned before, which after a successful create_client with
\* a snapshot id is that id (stripped).
C11_CheckoutLeavesRegistry ==
    [][/\ res'.op = "checkout" => fs' = fs
       /\ res'.op \in {"checkout", "mount", "unmount"} =>
             \A n \in Names :
                /\ read_file(fs', client_snapshot_of(n)) = read_file(fs, client_snapshot_of(n))
                /\ read_file(fs', client_config_of(n)) = read_file(fs, client_config_of(n))
                /\ get_client_info(fs', n) = get_client_info(fs, n)
       /\ (res'.op = "create_client" /\ res'.err = NoError /\ res'.snapshot_id # <<>>) =>
             get_client_info(fs', res'.name).info.snapshot = strip(res'.snapshot_id)
       /\ (res'.op = "create_client" /\ res'.err # NoError) =>
             \A n \in Names : get_client_info(fs', n) = get_client_info(fs, n)]_vars

\* C11 witness: a mounted client with snapshot x was checked out to y, the
\* request succeeded, and the client still reads back x.
C11_Witness ==
    /\ res.op = "checkout"
    /\ res.rpc # <<>>
    /\ res.reply = NoError
    /\ res.rpc[1].arg = <<"y">>
    /\ isdir(fs, local_dir_of(res.name))
    /\ get_client_info(fs, res.name).info.snapshot = <<"x">>

\* C12: after a successful create_client the keys of the stored bind-mounts
\* mapping are the names of the subdirectories of the bind-mounts directory:
\* one key and one subdirectory with with_buck, none without; and mount,
\* unmount, checkout and get_client_info change neither.
C12_BindMountsMatchDirs ==
    [][/\ (res'.op = "create_client" /\ res'.err = NoError) =>
             /\ StoredBindMountKeys(fs', res'.name) = BindMountSubdirs(fs', res'.name)
             /\ Cardinality(BindMountSubdirs(fs', res'.name)) = IF res'.with_buck THEN 1 ELSE 0
       /\ res'.op \in {"mount", "unmount", "checkout", "get_client_info"} =>
             \A n \in Names :
                /\ BindMountSubdirs(fs', n) = BindMountSubdirs(fs, n)
                /\ read_file(fs', client_config_of(n)) = read_file(fs, client_config_of(n))
                /\ isfile(fs', client_config_of(n)) =>
                      StoredBindMountKeys(fs', n) = BindMountSubdirs(fs', n)]_vars

\* C12 witness: a client created with with_buck has been mounted and has one
\* key and one subdirectory.
C12_Witness ==
    /\ res.op = "mount"
    /\ res.rpc # <<>>
    /\ isdir(fs, local_dir_of(res.name))
    /\ StoredBindMountKeys(fs, res.name) = {"buck-out"}
    /\ BindMountSubdirs(fs, res.name) = {"buck-out"}

\* C20: create_client validates the mount point before it looks for the
\* client and before it writes: with neither the mount point nor its parent
\* a directory it fails with InvalidMountPoint and changes nothing, so the
\* listing is what it was; with the mount point missing under an existing
\* parent the mount point is created, also when the call then fails with
\* ClientAlreadyExists and leaves the registry as it was.
C20_MountPointValidatedFirst ==
    [][res'.op = "create_client" =>
          LET mount_point == res'.mount_point
          IN  /\ (~isdir(fs, mount_point) /\ ~isdir(fs, dirname(mount_point))) =>
                    /\ res'.err = InvalidMountPoint
                    /\ fs' = fs
                    /\ get_client_names(fs') = get_client_names(fs)
              /\ (~isdir(fs, mount_point) /\ isdir(fs, dirname(mount_point))) =>
                    /\ isdir(fs', mount_point)
                    /\ isdir(fs, client_dir_of(res'.name)) =>
                          /\ res'.err = ClientAlreadyExists
                          /\ Registry(fs') = Registry(fs)
              /\ res'.err = InvalidMountPoint =>
                    ~isdir(fs, mount_point) /\ ~isdir(fs, dirname(mount_point))]_vars

\* C20 witness: create_client for an existing client with a mount point
\* whose parent is missing failed with the mount point error, not with
\* ClientAlreadyExists.
C20_Witness ==
    /\ res.op = "create_client"
    /\ res.err = InvalidMountPoint
    /\ isdir(fs, client_dir_of(res.name))
    /\ res.name \in Range(get_client_names(fs))

----------------------------------------------------------------------------
(* Claims about the directory helpers, the listing and partial creation    *)

DirHelpers == {"get_or_create_path_to_rocks_db", "_get_or_create_write_dir"}

\* C13: a get-or-create directory helper succeeds without a change when the
\* path is a directory, fails when the path exists and is not a directory,
\* and after a successful return the path is a directory.
C13_HelpersTruthful ==
    [][res'.op \in DirHelpers =>
          /\ isdir(fs, res'.path) => (res'.err = NoError /\ fs' = fs)
          /\ (exists(fs, res'.path) /\ ~isdir(fs, res'.path)) => res'.err # NoError
          /\ res'.err = NoError => isdir(fs', res'.path)]_vars

\* C14: a create_client call without a snapshot id succeeds without writing
\* a SNAPSHOT file, and then get_client_info succeeds with an empty
\* snapshot, as do mount, unmount and checkout up to their request.
C14_NoSnapshotClientValid ==
    (res.op = "create_client" /\ res.err = NoError /\ res.snapshot_id = <<>>) =>
        /\ ~exists(fs, client_snapshot_of(res.name))
        /\ get_client_info(fs, res.name).err = NoError
        /\ get_client_info(fs, res.name).info.snapshot = <<>>
        /\ mount(fs, res.name, NoError, NoError).err = NoError
        /\ unmount(fs, res.name, NoError, NoError).err = NoError
        /\ \A snapshot_id \in Revisions :
              checkout(fs, res.name, snapshot_id, NoError, NoError).err = NoError
        /\ \E kv \in get_all_client_config_info(fs).info : kv[1] = res.name

\* C15: get_client_names returns the empty list when the clients directory
\* does not exist, and otherwise each name whose client directory exists,
\* once, and nothing else; a name is listed once create_client has made its
\* client directory, whether the call then succeeded or failed at a later
\* step, and a call that failed before that step adds nothing.
C15_ListsCreatedClients ==
    /\ Range(get_client_names(fs)) = {n \in Names : isdir(fs, client_dir_of(n))}
    /\ Len(get_client_names(fs)) = Cardinality(Range(get_client_names(fs)))
    /\ ~isdir(fs, _get_clients_dir) => get_client_names(fs) = <<>>
    /\ res.op = "get_client_names" => res.names = get_client_names(fs)
    /\ res.op = "create_client" =>
          /\ (res.err = NoError \/ (res.err = OSError("EIO") /\ res.fault # "mkclient")) =>
                res.name \in Range(get_client_names(fs))
          /\ (res.err = OSError("EIO") /\ res.fault = "mkclient") =>
                res.name \notin Range(get_client_names(fs))

\* C15 witness: both names are listed, one of them a client whose creation
\* failed after its directory was made.
C15_Witness ==
    /\ res.op = "get_client_names"
    /\ Range(res.names) = {"a", "b"}
    /\ \E n \in Range(res.names) : ~exists(fs, client_config_of(n))
    /\ \E n \in Range(res.names) : get_client_info(fs, n).err = NoError

\* The step of create_client the injected error struck, counted in the
\* order of the side effects.
FailedStep(fault) ==
    CASE fault = "mkclient" -> 1
      [] fault = "mkbind" -> 2
      [] fault = "mkbuck" -> 3
      [] fault \in {"config", "config_write"} -> 4
      [] fault \in {"snapshot", "snapshot_write"} -> 5
      [] OTHER -> 6

\* The effects of the steps before the failed one are on disk, and nothing
\* of the later steps is; a document whose write failed after its open is
\* an empty file.
EarlierStepsPersist ==
    LET n == res.name
        k == FailedStep(res.fault)
    IN  /\ isdir(fs, client_dir_of(n)) <=> k > 1
        /\ isdir(fs, bind_mounts_dir_of(n)) <=> k > 2
        /\ isdir(fs, join(bind_mounts_dir_of(n), "buck-out")) <=> (k > 3 /\ res.with_buck)
        /\ read_file(fs, client_config_of(n)) =
              (IF k > 4 THEN [data |-> json_dump([k2 \in {"bind-mounts", "mount", "repo_type",
                                                          "repo_source"} |->
                                   CASE k2 = "bind-mounts" ->
                                            IF res.with_buck THEN {<<"buck-out", "buck-out">>}
                                            ELSE {}
                                     [] k2 = "mount" -> res.mount_point
                                     [] k2 = "repo_type" -> "git"
                                     [] k2 = "repo_source" -> "/repo"]),
                              err |-> NoError]
               ELSE IF res.fault = "config_write" THEN [data |-> <<>>, err |-> NoError]
               ELSE [data |-> <<>>, err |-> OSError("ENOENT")])
        /\ read_file(fs, client_snapshot_of(n)) =
              (IF res.fault = "snapshot_write" THEN [data |-> <<>>, err |-> NoError]
               ELSE [data |-> <<>>, err |-> OSError("ENOENT")])

\* create_client called again with the arguments of the failed call.
Retried ==
    create_client(Frame(res.name, res.mount_point, res.snapshot_id, "git", "/repo",
                        res.with_buck, "none"), fs)

FailedAfterMkdir ==
    /\ res.op = "create_client"
    /\ res.err = OSError("EIO")
    /\ FailedStep(res.fault) > 1

\* C16 as stated: a create_client call that fails at a step leaves the
\* effects of the earlier steps in place; when it failed after it made the
\* client directory, the name is listed, the retried call fails with
\* ClientAlreadyExists, and get_client_info of the name fails.
C16_PartialClientUnreadable ==
    /\ (res.op = "create_client" /\ res.err = OSError("EIO")) => EarlierStepsPersist
    /\ FailedAfterMkdir =>
          /\ res.name \in Range(get_client_names(fs))
          /\ Retried.fr.err = ClientAlreadyExists
          /\ Retried.fs = fs
          /\ get_client_info(fs, res.name).err # NoError

\* C16 amended: as above, but get_client_info of the name fails unless the
\* failed step was the write of the snapshot file after its open: then the
\* SNAPSHOT file is there and empty, and get_client_info succeeds and
\* reports an empty snapshot.
C16_PartialClientPersists ==
    /\ (res.op = "create_client" /\ res.err = OSError("EIO")) => EarlierStepsPersist
    /\ FailedAfterMkdir =>
          /\ res.name \in Range(get_client_names(fs))
          /\ Retried.fr.err = ClientAlreadyExists
          /\ Retried.fs = fs
          /\ res.fault # "snapshot_write" => get_client_info(fs, res.name).err # NoError
          /\ res.fault = "snapshot_write" =>
                /\ get_client_info(fs, res.name).err = NoError
                /\ get_client_info(fs, res.name).info.snapshot = <<>>
                /\ get_client_info(fs, res.name).info.mount = res.mount_point

\* C16 witness: the write of the snapshot id x failed after the open, and
\* the client reads back with an empty snapshot.
C16_Witness ==
    /\ FailedAfterMkdir
    /\ res.snapshot_id = <<"x">>
    /\ res.with_buck
    /\ isfile(fs, client_snapshot_of(res.name))
    /\ get_client_info(fs, res.name).err = NoError
    /\ get_client_info(fs, res.name).info.snapshot = <<>>

----------------------------------------------------------------------------
(* Claims about the command spawn builds and the way it launches it         *)

\* C17: the command starts with the sudo wrapper exactly when the caller is
\* not root and the binary is not both owned by root and setuid; a root
\* caller does not stat the binary, so a missing binary does not stop the
\* command from being built; the wrapper stands before the debugger
\* wrapper, and the rest is the binary, --edenDir, the registry root and
\* the extra arguments in their order.
C17_PrivilegeDecision ==
    /\ sp.cmd # <<>> =>
          LET sudo == Len(sp.cmd) >= 2 /\ sp.cmd[1] = "/usr/bin/sudo" /\ sp.cmd[2] = "-E"
              rest == IF sudo THEN SubSeq(sp.cmd, 3, Len(sp.cmd)) ELSE sp.cmd
              core == IF rest[1] = "gdb" THEN SubSeq(rest, 3, Len(rest)) ELSE rest
          IN  /\ sudo <=> (sp.euid # 0 /\ ~(sp.st.st_uid = 0 /\ sp.st.setuid))
              /\ \A i \in DOMAIN sp.cmd : sp.cmd[i] = "/usr/bin/sudo" => i = 1
              /\ \A i \in DOMAIN sp.cmd : sp.cmd[i] = "gdb" => i = IF sudo THEN 3 ELSE 1
              /\ rest[1] = "gdb" => rest[2] = "--args"
              /\ \E daemon_binary \in DaemonBinaries, extra_args \in ExtraArgs :
                    core = <<daemon_binary, "--edenDir", "eden">> \o extra_args
    /\ (sp.pc # "idle" /\ sp.euid = 0 /\ sp.entry.status # "ALIVE") => sp.cmd # <<>>
    /\ (sp.pc # "idle" /\ sp.entry.status # "ALIVE" /\ sp.cmd = <<>>) =>
          /\ sp.euid # 0 /\ ~sp.st.present
          /\ sp.pc = "raised" /\ sp.err = StartOSError("ENOENT")

\* C17 witness: a caller that is not root starts a setuid binary that root
\* does not own under the debugger and with an extra argument.
C17_Witness ==
    /\ sp.pc = "exec"
    /\ sp.euid = 1000
    /\ sp.st = Stat(TRUE, 1000, TRUE)
    /\ sp.cmd = <<"/usr/bin/sudo", "-E", "gdb", "--args", "/usr/bin/edenfs", "--edenDir",
                  "eden", "--v">>

\* C18: a spawn call in gdb mode is in foreground mode; a spawn call in
\* foreground mode that has built its command replaces the process image
\* and is over: no log write, no child process, no poll; the log write, the
\* child process and the poll happen in background mode only, in that order.
C18_ForegroundReplacesProcess ==
    /\ (\E i \in DOMAIN sp.cmd : sp.cmd[i] = "gdb") => sp.foreground
    /\ (sp.foreground /\ sp.cmd # <<>>) =>
          /\ sp.pc = "exec"
          /\ sp.execs = 1
          /\ sp.log_writes = 0 /\ sp.launched = 0 /\ sp.polls = 0
    /\ (sp.log_writes > 0 \/ sp.launched > 0 \/ sp.polls > 0) =>
          /\ ~sp.foreground
          /\ sp.execs = 0
          /\ sp.launched > 0 => sp.log_writes > 0
          /\ sp.polls > 0 => sp.launched > 0

\* C19: a check_health result that is ALIVE carries the pid the same probe
\* got; a result after a failed connection, getPid or getStatus is DEAD,
\* with the pid only if getPid had answered; the result at the head of
\* spawn is such a result; and a spawn call that returns, returns ALIVE
\* with a pid.
C19_HealthResults ==
    /\ hs.pc = "done" =>
          /\ hs.health.status = "ALIVE" =>
                /\ hs.health.pid \in Pids
                /\ hs.health.pid = hs.probe.getPid
                /\ hs.probe.getStatus = "ALIVE"
          /\ (hs.probe.conn # "ok" \/ hs.probe.getPid = "TException"
                \/ hs.probe.getStatus = "TException") =>
                /\ hs.health.status = "DEAD"
                /\ hs.health.pid = IF hs.probe.conn = "ok" /\ hs.probe.getPid # "TException"
                                     THEN hs.probe.getPid ELSE "None"
    /\ sp.pc # "idle" => (hs.pc = "done" /\ sp.entry = hs.health)
    /\ sp.pc = "returned" =>
          /\ ~sp.foreground
          /\ sp.health.status = "ALIVE"
          /\ sp.health.pid \in Pids
          /\ sp.entry.status # "ALIVE"

\* C19 witness: the probe at the head of spawn got a pid and no status, and
\* the spawn call returned a healthy result.
C19_Witness ==
    /\ sp.pc = "returned"
    /\ sp.health = HealthStatus("ALIVE", "4242",
                       <<"edenfs running (pid ", "4242", "); status is ", "ALIVE">>)
    /\ hs.probe = Probe("ok", "4242", "TException")
    /\ hs.health.status = "DEAD"
    /\ hs.health.pid = "4242"

====
